---------------------------- MODULE Spec2Model ----------------------------
(***************************************************************************)
(* Assignment engine of basin_matching: the assign table, the network      *)
(* walks (rbc/_propagation.py), propagation of gauges along the network    *)
(* and the cluster/distance fallback (saber/assign.py).                    *)
(*                                                                         *)
(* A table (pandas DataFrame) is a sequence of rows in table order; a row  *)
(* is a record of its columns.  A column value that pandas holds as NaN is *)
(* the value NaN below; ids, gauge ids, cluster labels and stream orders   *)
(* are positive integers.                                                  *)
(***************************************************************************)
EXTENDS Integers, Sequences, FiniteSets, TLC

VARIABLES
    pc,         \* position of the script / which function has been applied
    df,         \* the table handed to the function under study (the current assign_table)
    max_prop,   \* the max_prop argument
    args,       \* the remaining arguments of the call under study
    ret,        \* what the call returned
    history     \* the tables the stages were given, as the caller holds them after
                \* the stage returned, oldest first

vars == <<pc, df, max_prop, args, ret, history>>

---------------------------------------------------------------------------
(* Bounds of the model. *)

\* rows of a table
NumSeg == 3

\* segments of the linear chains of Scenario A
ChainLen == 5

---------------------------------------------------------------------------
(* Values. *)

\* np.nan: the null of every column
NaN == 0

\* walk_downstream's default outlet_next_id
outlet_next_id == -1

Orders == {1, 2}

SegIds == 1..NumSeg

\* an id that names no row of the table (a downstream_id whose row is absent)
MissingId == NumSeg + 1

\* the gauge co-located with a segment, when it has one (gauge ids are not model ids)
GaugeAt(mid) == 10 + mid

---------------------------------------------------------------------------
(* The reason column.  A reason is the string Python builds; it is kept    *)
(* here as the fields the string is built from, and read back the way the  *)
(* code reads it (substring test, split('-')[-1]).                         *)

NoReason == [tag |-> "NaN", dir |-> "", num |-> 0]

\* 'gauged'
reason_gauged == [tag |-> "gauged", dir |-> "", num |-> 0]

\* f'propagation-{direction}-{distance}'
reason_propagation(direction, distance) ==
    [tag |-> "propagation", dir |-> direction, num |-> distance]

\* f'cluster-{c_num}-dist'
reason_cluster(c_num) == [tag |-> "cluster", dir |-> "dist", num |-> c_num]

\* 'propagation' in reason
contains_propagation(reason) == reason.tag = "propagation"

\* int(str(reason).split('-')[-1]) of a propagation reason: its last field
last_field_int(reason) == reason.num

---------------------------------------------------------------------------
(* Table helpers (pandas boolean-mask selection keeps table order). *)

\* df[df[model_id_col] == id]
rows_with_id(t, id) == SelectSeq(t, LAMBDA r : r.model_id = id)

\* df[df[downstream_id_col] == id]
rows_draining_to(t, id) == SelectSeq(t, LAMBDA r : r.downstream_id = id)

\* df_[df_[order_col] == df_[df_[model_id_col] == start_id][order_col].values[0]]
same_order_rows(t, start_id) ==
    LET so == rows_with_id(t, start_id)[1].stream_order
    IN  SelectSeq(t, LAMBDA r : r.stream_order = so)

Range(s) == {s[i] : i \in DOMAIN s}

Injective(f) == \A a, b \in DOMAIN f : f[a] = f[b] => a = b

RECURSIVE ascending(_)
ascending(S) ==
    IF S = {} THEN <<>>
    ELSE LET m == CHOOSE a \in S : \A b \in S : a <= b
         IN  <<m>> \o ascending(S \ {m})

\* tuple(set(ids)): CPython keeps an int in the slot hash(i) mod table size and
\* hash(i) = i, so ids below the table size (8 or more) come out ascending,
\* whatever order they were inserted in.
tuple_of_set(ids) == ascending(Range(ids))

---------------------------------------------------------------------------
(* walk_downstream.  The result records the ids appended so far and        *)
(* whether the function returned: the while loop has no visited check, so  *)
(* once more ids are appended than df_ has rows an id has been appended    *)
(* twice and the (deterministic) loop never ends.                          *)

RECURSIVE downstream_loop(_, _, _)
downstream_loop(df_, stream_row, downstream_ids) ==
    IF Len(stream_row) > 0 /\ stream_row[1].downstream_id # outlet_next_id
    THEN IF Len(downstream_ids) > Len(df_)
         THEN [ids |-> downstream_ids, returned |-> FALSE]
         ELSE LET nxt  == stream_row[1].downstream_id
                  ids2 == Append(downstream_ids, nxt)
                  row2 == rows_with_id(df_, nxt)
              IN  IF Len(row2) = 0
                  THEN [ids |-> ids2, returned |-> TRUE]
                  ELSE downstream_loop(df_, row2, ids2)
    ELSE [ids |-> downstream_ids, returned |-> TRUE]

walk_downstream(t, start_id, same_order) ==
    LET df_ == IF same_order THEN same_order_rows(t, start_id) ELSE t
    IN  downstream_loop(df_, rows_with_id(df_, start_id), <<>>)

---------------------------------------------------------------------------
(* walk_upstream.  depth is the number of hops the walk may still go up:   *)
(* a walk that is more hops above its start than df_ has rows is on a      *)
(* cycle, and the loop (or the recursion) never returns.                   *)

RECURSIVE upstream_loop(_, _, _, _)
RECURSIVE upstream_branches(_, _, _, _, _)
RECURSIVE upstream_call(_, _, _)

\* the while loop of walk_upstream
upstream_loop(df_, upstream_ids, upstream_rows, depth) ==
    IF Len(upstream_rows) = 0
    THEN [ids |-> upstream_ids, returned |-> TRUE]
    ELSE IF depth = 0
    THEN [ids |-> upstream_ids, returned |-> FALSE]
    ELSE IF Len(upstream_rows) = 1
    THEN upstream_loop(df_, Append(upstream_ids, upstream_rows[1].model_id),
                       rows_draining_to(df_, upstream_rows[1].model_id), depth - 1)
    ELSE LET branch_ids == [i \in DOMAIN upstream_rows |-> upstream_rows[i].model_id]
             r == upstream_branches(df_, upstream_ids, branch_ids, 1, depth - 1)
         IN  IF ~r.returned THEN r
             ELSE upstream_loop(df_, r.ids,
                                rows_draining_to(df_, branch_ids[Len(branch_ids)]),
                                depth - 1)

\* the for loop walking only the first row of a confluence
upstream_branches_first_only(df_, upstream_ids, branch_ids, i, depth) ==
    IF i > 1
    THEN [ids |-> upstream_ids, returned |-> TRUE]
    ELSE LET sub == upstream_call(df_, branch_ids[i], depth)
         IN  IF ~sub.returned
             THEN [ids |-> upstream_ids, returned |-> FALSE]
             ELSE upstream_branches(df_, upstream_ids \o sub.ids, branch_ids, i + 1, depth)

\* the for loop over the rows of a confluence
upstream_branches(df_, upstream_ids, branch_ids, i, depth) ==
    IF i > Len(branch_ids)
    THEN [ids |-> upstream_ids, returned |-> TRUE]
    ELSE LET sub == upstream_call(df_, branch_ids[i], depth)
         IN  IF ~sub.returned
             THEN [ids |-> upstream_ids, returned |-> FALSE]
             ELSE upstream_branches(df_, upstream_ids \o sub.ids, branch_ids, i + 1, depth)

\* walk_upstream(df_, id, False): the body after the order filter
upstream_call(df_, start_id, depth) ==
    LET r == upstream_loop(df_, <<start_id>>, rows_draining_to(df_, start_id), depth)
    IN  IF r.returned THEN [ids |-> tuple_of_set(r.ids), returned |-> TRUE] ELSE r

walk_upstream(t, start_id, same_order) ==
    LET df_ == IF same_order THEN same_order_rows(t, start_id) ELSE t
    IN  upstream_call(df_, start_id, Len(df_))

---------------------------------------------------------------------------
(* propagate_in_table (rbc/_propagation.py). *)

\* _df.loc[_df[model_id_col] == segment_id, assigned_id_col] = gauged_stream
\* _df.loc[_df[model_id_col] == segment_id, reason_col] = reason
write_assigned(_df, segment_id, gauged_stream, reason) ==
    [i \in DOMAIN _df |->
        IF _df[i].model_id = segment_id
        THEN [_df[i] EXCEPT !.assigned_model_id = gauged_stream, !.reason = reason]
        ELSE _df[i]]

\* propagate_step with 'gauged' taken for a reason that a closer gauge overrides
propagate_step_overrides_gauged(_df, gauged_stream, segment_id, index, maxp, direction) ==
    LET distance == index + 1
        downstream_row == rows_with_id(_df, segment_id)
    IN  IF distance > maxp THEN _df
        ELSE IF Len(downstream_row) = 0
                \/ \E i \in DOMAIN downstream_row : downstream_row[i].assigned_model_id = NaN
        THEN write_assigned(_df, segment_id, gauged_stream,
                            reason_propagation(direction, distance))
        ELSE LET downstream_reason == downstream_row[1].reason
             IN  IF downstream_reason = reason_gauged
                    \/ (contains_propagation(downstream_reason)
                          /\ last_field_int(downstream_reason) >= distance)
                 THEN write_assigned(_df, segment_id, gauged_stream,
                                     reason_propagation("downstream", distance))
                 ELSE _df

\* propagate_step overriding only a strictly farther propagation
propagate_step_strictly_farther(_df, gauged_stream, segment_id, index, maxp, direction) ==
    LET distance == index + 1
        downstream_row == rows_with_id(_df, segment_id)
    IN  IF distance > maxp THEN _df
        ELSE IF Len(downstream_row) = 0
                \/ \E i \in DOMAIN downstream_row : downstream_row[i].assigned_model_id = NaN
        THEN write_assigned(_df, segment_id, gauged_stream,
                            reason_propagation(direction, distance))
        ELSE LET downstream_reason == downstream_row[1].reason
             IN  IF contains_propagation(downstream_reason)
                    /\ last_field_int(downstream_reason) > distance
                 THEN write_assigned(_df, segment_id, gauged_stream,
                                     reason_propagation("downstream", distance))
                 ELSE _df

\* one pass of the for loop, for the candidate at 0-based position index
propagate_step(_df, gauged_stream, segment_id, index, maxp, direction) ==
    LET distance == index + 1
        downstream_row == rows_with_id(_df, segment_id)
    IN  IF distance > maxp THEN _df
        ELSE IF Len(downstream_row) = 0
                \/ \E i \in DOMAIN downstream_row : downstream_row[i].assigned_model_id = NaN
        THEN write_assigned(_df, segment_id, gauged_stream,
                            reason_propagation(direction, distance))
        ELSE LET downstream_reason == downstream_row[1].reason
             IN  IF contains_propagation(downstream_reason)
                    /\ last_field_int(downstream_reason) >= distance
                 THEN write_assigned(_df, segment_id, gauged_stream,
                                     reason_propagation("downstream", distance))
                 ELSE _df

RECURSIVE propagate_loop(_, _, _, _, _, _)
propagate_loop(_df, gauged_stream, connected_segments, index, maxp, direction) ==
    IF index >= Len(connected_segments) THEN _df
    ELSE propagate_loop(
            propagate_step(_df, gauged_stream, connected_segments[index + 1],
                           index, maxp, direction),
            gauged_stream, connected_segments, index + 1, maxp, direction)

propagate_in_table(t, gauged_stream, connected_segments, maxp, direction) ==
    propagate_loop(t, gauged_stream, connected_segments, 0, maxp, direction)

\* The propagate_in_table that saber/assign.py calls takes the gauge id too
\* (start_gid); its file is not among the sources.  Spec section 4.2: a written
\* candidate gets assigned_gauge_id = G along with assigned_model_id = g.
propagate_in_table_gid(t, start_mid, start_gid, connected_segments, maxp, direction) ==
    LET out == propagate_in_table(t, start_mid, connected_segments, maxp, direction)
    IN  [i \in DOMAIN t |->
            IF out[i] # t[i]
            THEN [out[i] EXCEPT !.assigned_gauge_id = start_gid]
            ELSE out[i]]

---------------------------------------------------------------------------
(* The pipeline stages (saber/assign.py). *)

\* generate: the three assignment columns are created as NaN on the merged table
generate(merged) ==
    [i \in DOMAIN merged |->
        [model_id |-> merged[i].model_id, downstream_id |-> merged[i].downstream_id,
         stream_order |-> merged[i].stream_order, x |-> merged[i].x, y |-> merged[i].y,
         gauge_id |-> merged[i].gauge_id, fdc_cluster |-> merged[i].fdc_cluster,
         assigned_model_id |-> NaN, assigned_gauge_id |-> NaN, reason |-> NoReason]]

\* assign_gauged writing the gauge id into both assignment columns
assign_gauged_gauge_id_only(t) ==
    [i \in DOMAIN t |->
        IF t[i].gauge_id # NaN
        THEN [t[i] EXCEPT !.assigned_model_id = t[i].gauge_id,
                          !.assigned_gauge_id = t[i].gauge_id,
                          !.reason = reason_gauged]
        ELSE t[i]]

assign_gauged(t) ==
    [i \in DOMAIN t |->
        IF t[i].gauge_id # NaN
        THEN [t[i] EXCEPT !.assigned_model_id = t[i].model_id,
                          !.assigned_gauge_id = t[i].gauge_id,
                          !.reason = reason_gauged]
        ELSE t[i]]

\* _df.loc[~_df[gid_col].isna(), mid_col]: the gauged model ids, in table order
gauged_streams(t) ==
    LET g == SelectSeq(t, LAMBDA r : r.gauge_id # NaN)
    IN  [i \in DOMAIN g |-> g[i].model_id]

\* the body of the for loop of assign_propagation; t is the df the walks read
propagation_step(t, _df, gauged_stream, maxp) ==
    LET start_gid == rows_with_id(_df, gauged_stream)[1].gauge_id
        up   == walk_upstream(t, gauged_stream, TRUE)
        down == walk_downstream(t, gauged_stream, TRUE)
    IN  IF ~up.returned \/ ~down.returned
        THEN [table |-> _df, returned |-> FALSE]
        ELSE [table |->
                propagate_in_table_gid(
                    propagate_in_table_gid(_df, gauged_stream, start_gid, up.ids,
                                           maxp, "upstream"),
                    gauged_stream, start_gid, down.ids, maxp, "downstream"),
              returned |-> TRUE]

RECURSIVE propagation_loop(_, _, _, _, _)
propagation_loop(t, _df, streams, k, maxp) ==
    IF k > Len(streams) THEN [table |-> _df, returned |-> TRUE]
    ELSE LET r == propagation_step(t, _df, streams[k], maxp)
         IN  IF ~r.returned THEN r
             ELSE propagation_loop(t, r.table, streams, k + 1, maxp)

\* returned is FALSE when a walk never returns
assign_propagation(t, maxp) == propagation_loop(t, t, gauged_streams(t), 1, maxp)

\* rbc/assign.py propagation: the body of its for loop, the downstream pass
\* before the upstream pass
rbc_propagation_step(t, _df, gauged_stream, maxp) ==
    LET down == walk_downstream(t, gauged_stream, TRUE)
        up   == walk_upstream(t, gauged_stream, TRUE)
    IN  IF ~down.returned \/ ~up.returned
        THEN [table |-> _df, returned |-> FALSE]
        ELSE [table |->
                propagate_in_table(
                    propagate_in_table(_df, gauged_stream, down.ids, maxp, "downstream"),
                    gauged_stream, up.ids, maxp, "upstream"),
              returned |-> TRUE]

RECURSIVE rbc_propagation_loop(_, _, _, _, _)
rbc_propagation_loop(t, _df, streams, k, maxp) ==
    IF k > Len(streams) THEN [table |-> _df, returned |-> TRUE]
    ELSE LET r == rbc_propagation_step(t, _df, streams[k], maxp)
         IN  IF ~r.returned THEN r
             ELSE rbc_propagation_loop(t, r.table, streams, k + 1, maxp)

\* rbc/assign.py propagation
propagation(t, maxp) == rbc_propagation_loop(t, t, gauged_streams(t), 1, maxp)

---------------------------------------------------------------------------
(* assign_by_distance (saber/assign.py). *)

\* sorted(set(values)); a NaN label equals no row's label (NaN == NaN is
\* False), so its pass selects no rows and is left out
sorted_clusters(t) == ascending({t[i].fdc_cluster : i \in DOMAIN t} \ {NaN})

\* sorted(set(c_sub[order_col]))
sorted_orders(c_sub) == ascending({c_sub[i].stream_order : i \in DOMAIN c_sub} \ {NaN})

\* dx * dx + dy * dy: np.sqrt is increasing, so the smallest dist is the
\* smallest squared distance
dist2(a, b) == (a.x - b.x) * (a.x - b.x) + (a.y - b.y) * (a.y - b.y)

\* avail_assigns.x.values - subset.x.values broadcasts: one subset row against
\* every available row, or row by row when the two have the same length
broadcasts(avail_assigns, subset) ==
    Len(subset) = 1 \/ Len(subset) = Len(avail_assigns)

dist_column(avail_assigns, subset) ==
    [j \in DOMAIN avail_assigns |->
        dist2(avail_assigns[j], IF Len(subset) = 1 THEN subset[1] ELSE subset[j])]

\* idxmin returning the last position holding the minimum
idxmin_last(dist) ==
    CHOOSE j \in DOMAIN dist :
        /\ \A k \in DOMAIN dist : dist[j] <= dist[k]
        /\ \A k \in DOMAIN dist : k > j => dist[k] > dist[j]

\* avail_assigns['dist'].idxmin(): the first position holding the minimum
idxmin(dist) ==
    CHOOSE j \in DOMAIN dist :
        /\ \A k \in DOMAIN dist : dist[j] <= dist[k]
        /\ \A k \in DOMAIN dist : k < j => dist[k] > dist[j]

\* _df.loc[_df[mid_col] == id, [asgn_mid_col, asgn_gid_col, reason_col]] = [...]
write_assignment(_df, id, mid_to_assign, gid_to_assign, reason) ==
    [i \in DOMAIN _df |->
        IF _df[i].model_id = id
        THEN [_df[i] EXCEPT !.assigned_model_id = mid_to_assign,
                            !.assigned_gauge_id = gid_to_assign,
                            !.reason = reason]
        ELSE _df[i]]

RECURSIVE distance_ids_loop(_, _, _, _, _, _)

\* the nearest row's own model_id written in place of its assigned_model_id
distance_ids_loop_copies_nearest_id(_df, c_so_sub, avail_assigns, ids_to_assign, n, c_num) ==
    IF n > Len(ids_to_assign) THEN [table |-> _df, raised |-> FALSE]
    ELSE LET id == ids_to_assign[n]
             subset == rows_with_id(c_so_sub, id)
         IN  IF ~broadcasts(avail_assigns, subset)
             THEN [table |-> _df, raised |-> TRUE]
             ELSE LET row_idx_to_assign == idxmin(dist_column(avail_assigns, subset))
                      src == avail_assigns[row_idx_to_assign]
                  IN  distance_ids_loop(
                          write_assignment(_df, id, src.model_id,
                                           src.assigned_gauge_id, reason_cluster(c_num)),
                          c_so_sub, avail_assigns, ids_to_assign, n + 1, c_num)

\* the for loop over ids_to_assign; raised when numpy cannot broadcast
distance_ids_loop(_df, c_so_sub, avail_assigns, ids_to_assign, n, c_num) ==
    IF n > Len(ids_to_assign) THEN [table |-> _df, raised |-> FALSE]
    ELSE LET id == ids_to_assign[n]
             subset == rows_with_id(c_so_sub, id)
         IN  IF ~broadcasts(avail_assigns, subset)
             THEN [table |-> _df, raised |-> TRUE]
             ELSE LET row_idx_to_assign == idxmin(dist_column(avail_assigns, subset))
                      src == avail_assigns[row_idx_to_assign]
                  IN  distance_ids_loop(
                          write_assignment(_df, id, src.assigned_model_id,
                                           src.assigned_gauge_id, reason_cluster(c_num)),
                          c_so_sub, avail_assigns, ids_to_assign, n + 1, c_num)

\* the stream order filter left out
order_group_unfiltered(c_sub, so_num) == c_sub

\* c_so_sub = c_sub[c_sub[order_col] == so_num]
order_group(c_sub, so_num) == SelectSeq(c_sub, LAMBDA r : r.stream_order = so_num)

\* every id of the group taken as needing an assignment
ids_needing_assignment_all(c_so_sub) ==
    [i \in DOMAIN c_so_sub |-> c_so_sub[i].model_id]

\* ids_to_assign = c_so_sub[c_so_sub[asgn_mid_col].isna()][mid_col].values
ids_needing_assignment(c_so_sub) ==
    LET unassigned == SelectSeq(c_so_sub, LAMBDA r : r.assigned_model_id = NaN)
    IN  [i \in DOMAIN unassigned |-> unassigned[i].model_id]

\* avail_assigns = c_so_sub[c_so_sub[asgn_mid_col].notna()]
available_assignments(c_so_sub) ==
    SelectSeq(c_so_sub, LAMBDA r : r.assigned_model_id # NaN)

RECURSIVE distance_orders_loop(_, _, _, _, _)

\* the for loop left at the first group that cannot be assigned
distance_orders_loop_leaves_at_skip(_df, c_sub, so_nums, n, c_num) ==
    IF n > Len(so_nums) THEN [table |-> _df, raised |-> FALSE]
    ELSE LET c_so_sub == order_group(c_sub, so_nums[n])
             ids_to_assign == ids_needing_assignment(c_so_sub)
             avail_assigns == available_assignments(c_so_sub)
         IN  IF Len(ids_to_assign) = 0 \/ Len(avail_assigns) = 0
             THEN [table |-> _df, raised |-> FALSE]
             ELSE LET r == distance_ids_loop(_df, c_so_sub, avail_assigns,
                                             ids_to_assign, 1, c_num)
                  IN  IF r.raised THEN r
                      ELSE distance_orders_loop(r.table, c_sub, so_nums, n + 1, c_num)

\* the for loop over the stream orders of one cluster
distance_orders_loop(_df, c_sub, so_nums, n, c_num) ==
    IF n > Len(so_nums) THEN [table |-> _df, raised |-> FALSE]
    ELSE LET c_so_sub == order_group(c_sub, so_nums[n])
             ids_to_assign == ids_needing_assignment(c_so_sub)
             avail_assigns == available_assignments(c_so_sub)
         IN  IF Len(ids_to_assign) = 0 \/ Len(avail_assigns) = 0
             THEN distance_orders_loop(_df, c_sub, so_nums, n + 1, c_num)
             ELSE LET r == distance_ids_loop(_df, c_so_sub, avail_assigns,
                                             ids_to_assign, 1, c_num)
                  IN  IF r.raised THEN r
                      ELSE distance_orders_loop(r.table, c_sub, so_nums, n + 1, c_num)

\* the for loop over the cluster numbers
RECURSIVE distance_clusters_loop(_, _, _)
distance_clusters_loop(_df, c_nums, n) ==
    IF n > Len(c_nums) THEN [table |-> _df, raised |-> FALSE]
    ELSE LET c_sub == SelectSeq(_df, LAMBDA r : r.fdc_cluster = c_nums[n])
             r == distance_orders_loop(_df, c_sub, sorted_orders(c_sub), 1, c_nums[n])
         IN  IF r.raised THEN r ELSE distance_clusters_loop(r.table, c_nums, n + 1)

\* raised is TRUE when the distance computation raises ValueError
assign_by_distance(t) ==
    distance_clusters_loop(t, sorted_clusters(t), 1)

---------------------------------------------------------------------------
(* Reachability in the network, stated on the table alone. *)

IdsOf(t) == {t[i].model_id : i \in DOMAIN t}

\* the ids one downstream_id link below the ids of S
StepDown(t, S) == {t[i].downstream_id : i \in {j \in DOMAIN t : t[j].model_id \in S}}

\* the ids one downstream_id link above the ids of S
StepUp(t, S) == {t[i].model_id : i \in {j \in DOMAIN t : t[j].downstream_id \in S}}

RECURSIVE DownClosure(_, _, _)
DownClosure(t, S, n) ==
    IF n = 0 THEN S ELSE DownClosure(t, S \cup StepDown(t, S), n - 1)

RECURSIVE UpClosure(_, _, _)
UpClosure(t, S, n) ==
    IF n = 0 THEN S ELSE UpClosure(t, S \cup StepUp(t, S), n - 1)

\* no segment is downstream of itself
Acyclic(t) ==
    \A id \in IdsOf(t) : id \notin DownClosure(t, StepDown(t, {id}), Len(t))

OrderOf(t, id) == rows_with_id(t, id)[1].stream_order

\* the rows of the stream order of segment id
OrderNet(t, id) == SelectSeq(t, LAMBDA r : r.stream_order = OrderOf(t, id))

\* start and every segment of its order that drains to it through segments of that order
UpstreamSameOrder(t, start) == UpClosure(OrderNet(t, start), {start}, Len(t))

NoDuplicates(s) == \A i, j \in DOMAIN s : s[i] = s[j] => i = j

---------------------------------------------------------------------------
(* Input tables. *)

\* a row whose assignment columns are still NaN
Row(mid, down, so, px, py, gid, cl) ==
    [model_id |-> mid, downstream_id |-> down, stream_order |-> so,
     x |-> px, y |-> py, gauge_id |-> gid, fdc_cluster |-> cl,
     assigned_model_id |-> NaN, assigned_gauge_id |-> NaN, reason |-> NoReason]

\* the stream orders of the segments; the code only compares orders for
\* equality within one table, so segment 1 is given order 1
OrderChoices == {o \in [SegIds -> Orders] : o[1] = 1}

\* networks: row i is segment i, draining to the outlet, to any segment or to
\* an id with no row, on a stream of either order
NetTable(d, o) == [i \in SegIds |-> Row(i, d[i], o[i], i, 0, NaN, 1)]

NetDrainages == [SegIds -> {outlet_next_id} \cup SegIds \cup {MissingId}]

NoCall == [fn |-> "none", start |-> 0]
NoRet  == [ids |-> <<>>, returned |-> TRUE]

---------------------------------------------------------------------------
(* The walks applied to any network and any start id of it. *)

InitWalk ==
    /\ pc = "input"
    /\ \E d \in NetDrainages, o \in OrderChoices : df = NetTable(d, o)
    /\ max_prop = 0
    /\ args = NoCall
    /\ ret = NoRet
    /\ history = <<>>

CallWalkDownstream ==
    /\ pc = "input"
    /\ \E s \in SegIds :
        /\ args' = [fn |-> "walk_downstream", start |-> s]
        /\ ret' = walk_downstream(df, s, TRUE)
    /\ pc' = "walked"
    /\ UNCHANGED <<df, max_prop, history>>

CallWalkUpstream ==
    /\ pc = "input"
    /\ \E s \in SegIds :
        /\ args' = [fn |-> "walk_upstream", start |-> s]
        /\ ret' = walk_upstream(df, s, TRUE)
    /\ pc' = "walked"
    /\ UNCHANGED <<df, max_prop, history>>

NextWalk == CallWalkDownstream \/ CallWalkUpstream

SpecWalk == InitWalk /\ [][NextWalk]_vars


---------------------------------------------------------------------------
(* The pipeline of the example script: generate, assign_gauged,            *)
(* assign_propagation, assign_by_distance, each on the table the stage     *)
(* before returned.                                                        *)

\* a row of the merged input (drain table, gauge table and cluster labels joined)
MergedRow(mid, down, so, px, py, gid, cl) ==
    [model_id |-> mid, downstream_id |-> down, stream_order |-> so,
     x |-> px, y |-> py, gauge_id |-> gid, fdc_cluster |-> cl]

GaugeChoice(has, mid) == IF has THEN GaugeAt(mid) ELSE NaN

\* the drainages the traversal requires: no segment downstream of itself
AcyclicDrainages ==
    { d \in [SegIds -> {outlet_next_id} \cup SegIds] :
        Acyclic([i \in SegIds |-> [model_id |-> i, downstream_id |-> d[i]]]) }

\* well-formed inputs: row i is segment i; any acyclic drainage, any orders,
\* any set of gauged segments
PipeInput(d, o, g) ==
    [i \in SegIds |-> MergedRow(i, d[i], o[i], i, 0, GaugeChoice(g[i], i), 1)]

Generate ==
    /\ pc = "merged"
    /\ df' = generate(df)
    /\ pc' = "generated"
    /\ UNCHANGED <<max_prop, args, ret, history>>

\* assign_gauged writing into the table it was given, which the caller still holds
AssignGauged_in_place ==
    /\ pc = "generated"
    /\ df' = assign_gauged(df)
    /\ history' = Append(history, df')
    /\ pc' = "gauged"
    /\ UNCHANGED <<max_prop, args, ret>>

\* every stage works on _df = df.copy(): the table it was given, kept in
\* history as the caller holds it after the call, is as it was before
AssignGauged ==
    /\ pc = "generated"
    /\ df' = assign_gauged(df)
    /\ history' = Append(history, df)
    /\ pc' = "gauged"
    /\ UNCHANGED <<max_prop, args, ret>>

\* a walk that never returns leaves the script inside assign_propagation
AssignPropagation ==
    /\ pc = "gauged"
    /\ LET r == assign_propagation(df, max_prop)
       IN  /\ df' = r.table
           /\ pc' = IF r.returned THEN "propagated" ELSE "propagation_hangs"
    /\ history' = Append(history, df)
    /\ UNCHANGED <<max_prop, args, ret>>

\* a ValueError ends the script inside assign_by_distance
AssignByDistance ==
    /\ pc = "propagated"
    /\ LET r == assign_by_distance(df)
       IN  /\ df' = r.table
           /\ pc' = IF r.raised THEN "distance_raised" ELSE "assigned"
    /\ history' = Append(history, df)
    /\ UNCHANGED <<max_prop, args, ret>>

NextPipe == Generate \/ AssignGauged \/ AssignPropagation \/ AssignByDistance

\* max_prop: one hop, two hops, or as many as the table has rows
MaxProps == {1, 2, NumSeg}

InitPipe ==
    /\ pc = "merged"
    /\ \E d \in AcyclicDrainages, o \in OrderChoices, g \in [SegIds -> BOOLEAN] :
         df = PipeInput(d, o, g)
    /\ max_prop \in MaxProps
    /\ args = NoCall
    /\ ret = NoRet
    /\ history = <<>>

Spec == InitPipe /\ [][NextPipe]_vars

\* linear chains of one stream order: segment c[1] drains to c[2], ..., the
\* last to the outlet; one gauge; max_prop at least the chain length
ChainInput(c, gauged) ==
    [i \in DOMAIN c |->
        MergedRow(i,
                  LET pos == CHOOSE q \in DOMAIN c : c[q] = i
                  IN  IF pos = Len(c) THEN outlet_next_id ELSE c[pos + 1],
                  1, i, 0, GaugeChoice(i = gauged, i), 1)]

\* the segments of a chain of L segments, from the top to the outlet
ChainOrders(L) == {f \in [1..L -> 1..L] : Injective(f)}

InitChain ==
    /\ pc = "merged"
    /\ \E L \in 1..ChainLen : \E c \in ChainOrders(L), gauged \in 1..L :
         df = ChainInput(c, gauged)
    /\ max_prop \in {Len(df), Len(df) + 1}
    /\ args = NoCall
    /\ ret = NoRet
    /\ history = <<>>

SpecChain == InitChain /\ [][NextPipe]_vars

\* malformed inputs: two rows share a model_id
MalformedInput(m, d, g) ==
    [i \in SegIds |-> MergedRow(m[i], d[i], 1, i, 0, GaugeChoice(g[i], i), 1)]

RepeatedIds == {f \in [SegIds -> SegIds] : ~Injective(f)}

InitMalformed ==
    /\ pc = "merged"
    /\ \E m \in RepeatedIds, d \in [SegIds -> {outlet_next_id} \cup SegIds],
          g \in [SegIds -> BOOLEAN] :
         df = MalformedInput(m, d, g)
    /\ max_prop = NumSeg
    /\ args = NoCall
    /\ ret = NoRet
    /\ history = <<>>

SpecMalformed == InitMalformed /\ [][NextPipe]_vars

---------------------------------------------------------------------------
(* The propagation stage applied to a table and to the same rows in        *)
(* another row order.                                                      *)

\* the rows of t in the order p
Reordered(t, p) == [i \in DOMAIN t |-> t[p[i]]]

RowOrders == Permutations(SegIds)

\* the table assign_gauged returns for any well-formed input
InitOrder ==
    /\ pc = "input"
    /\ \E d \in AcyclicDrainages, o \in OrderChoices, g \in [SegIds -> BOOLEAN] :
         df = assign_gauged(generate(PipeInput(d, o, g)))
    /\ max_prop \in MaxProps
    /\ args = NoCall
    /\ ret = NoRet
    /\ history = <<>>

\* saber/assign.py
CallAssignPropagationBothOrders ==
    /\ pc = "input"
    /\ \E p \in RowOrders :
        /\ args' = [fn |-> "assign_propagation", start |-> 0, order |-> p]
        /\ ret' = [given     |-> assign_propagation(df, max_prop),
                   reordered |-> assign_propagation(Reordered(df, p), max_prop)]
    /\ pc' = "propagated_both"
    /\ UNCHANGED <<df, max_prop, history>>

\* rbc/assign.py
CallPropagationBothOrders ==
    /\ pc = "input"
    /\ \E p \in RowOrders :
        /\ args' = [fn |-> "propagation", start |-> 0, order |-> p]
        /\ ret' = [given     |-> propagation(df, max_prop),
                   reordered |-> propagation(Reordered(df, p), max_prop)]
    /\ pc' = "propagated_both"
    /\ UNCHANGED <<df, max_prop, history>>

NextOrder == CallAssignPropagationBothOrders \/ CallPropagationBothOrders

SpecOrder == InitOrder /\ [][NextOrder]_vars

---------------------------------------------------------------------------
(* propagate_in_table applied to any table whose rows are unassigned,      *)
(* gauged, assigned by an earlier propagation or assigned by cluster, with *)
(* any gauged stream, any candidate sequence, max_prop and direction.      *)

\* rows of the tables propagate_in_table is applied to
PropRows == 2

\* longest candidate sequence
MaxConnected == 2

PropIds == 1..PropRows

\* a candidate id with no row in the table
PropMissingId == PropRows + 1

\* a gauged segment of an earlier pass, outside the rows at hand
PriorSource == PropRows + 2

Directions == {"upstream", "downstream"}

\* the assignments a row can carry when propagate_in_table is called
PriorAssignments(mid) ==
    { [gauge_id |-> NaN, assigned_model_id |-> NaN, assigned_gauge_id |-> NaN,
       reason |-> NoReason],
      [gauge_id |-> GaugeAt(mid), assigned_model_id |-> mid,
       assigned_gauge_id |-> GaugeAt(mid), reason |-> reason_gauged],
      [gauge_id |-> NaN, assigned_model_id |-> PriorSource,
       assigned_gauge_id |-> GaugeAt(PriorSource),
       reason |-> reason_propagation("upstream", 1)],
      [gauge_id |-> NaN, assigned_model_id |-> PriorSource,
       assigned_gauge_id |-> GaugeAt(PriorSource),
       reason |-> reason_propagation("downstream", 2)],
      [gauge_id |-> NaN, assigned_model_id |-> PriorSource,
       assigned_gauge_id |-> GaugeAt(PriorSource), reason |-> reason_cluster(1)] }

WithAssignment(r, a) ==
    [r EXCEPT !.gauge_id = a.gauge_id, !.assigned_model_id = a.assigned_model_id,
              !.assigned_gauge_id = a.assigned_gauge_id, !.reason = a.reason]

PropTable(a) ==
    [i \in PropIds |-> WithAssignment(Row(i, outlet_next_id, 1, i, 0, NaN, 1), a[i])]

PriorChoices ==
    {f \in [PropIds -> UNION {PriorAssignments(m) : m \in PropIds}] :
        \A m \in PropIds : f[m] \in PriorAssignments(m)}

\* candidate sequences: any ids of rows (the gauged stream and gauged rows
\* included) and an id with no row
ConnectedSequences ==
    UNION { [1..n -> PropIds \cup {PropMissingId}] : n \in 0..MaxConnected }

PropMaxProps == 1..MaxConnected

InitProp ==
    /\ pc = "input"
    /\ \E a \in PriorChoices : df = PropTable(a)
    /\ max_prop = 0
    /\ args = NoCall
    /\ ret = NoRet
    /\ history = <<>>

PropCall(fn, g, c, d) ==
    [fn |-> fn, start |-> g, connected_segments |-> c, direction |-> d]

\* rbc/_propagation.py
CallPropagateInTable ==
    /\ pc = "input"
    /\ \E g \in PropIds, c \in ConnectedSequences, m \in PropMaxProps, d \in Directions :
        /\ args' = PropCall("propagate_in_table", g, c, d)
        /\ max_prop' = m
        /\ ret' = propagate_in_table(df, g, c, m, d)
    /\ pc' = "propagate_called"
    /\ UNCHANGED <<df, history>>

\* the call of saber/assign.py, with the gauge id of the gauged stream
CallPropagateInTableGid ==
    /\ pc = "input"
    /\ \E g \in PropIds, c \in ConnectedSequences, m \in PropMaxProps, d \in Directions :
        /\ args' = PropCall("propagate_in_table_gid", g, c, d)
        /\ max_prop' = m
        /\ ret' = propagate_in_table_gid(df, g, GaugeAt(g), c, m, d)
    /\ pc' = "propagate_called"
    /\ UNCHANGED <<df, history>>

NextProp == CallPropagateInTable \/ CallPropagateInTableGid

SpecProp == InitProp /\ [][NextProp]_vars

---------------------------------------------------------------------------
(* assign_by_distance applied to any table of assigned and unassigned      *)
(* segments in several (fdc_cluster, stream_order) groups, and applied     *)
(* again to its own result.                                                *)

\* rows of the tables assign_by_distance is applied to
DistRows == 3

DistIds == 1..DistRows

\* (fdc_cluster, stream_order) of a row; the outer join of generate leaves a
\* segment without a cluster label with a NaN fdc_cluster
Groups == {<<1, 1>>, <<1, 2>>, <<2, 1>>, <<NaN, 1>>}

\* planar coordinates: (2,0) and (0,2) are equally far from (0,0) and
\* farther from each other
Points == {<<0, 0>>, <<2, 0>>, <<0, 2>>}

\* row i, already assigned (as a gauged segment is) or not
DistRow(i, grp, pt, assigned) ==
    IF assigned
    THEN WithAssignment(Row(i, outlet_next_id, grp[2], pt[1], pt[2], NaN, grp[1]),
                        [gauge_id |-> GaugeAt(i), assigned_model_id |-> i,
                         assigned_gauge_id |-> GaugeAt(i), reason |-> reason_gauged])
    ELSE Row(i, outlet_next_id, grp[2], pt[1], pt[2], NaN, grp[1])

DistTable(grp, pt, a) == [i \in DistIds |-> DistRow(i, grp[i], pt[i], a[i])]

InitDist ==
    /\ pc = "input"
    /\ \E grp \in [DistIds -> Groups], pt \in [DistIds -> Points],
          a \in [DistIds -> BOOLEAN] :
         df = DistTable(grp, pt, a)
    /\ max_prop = 0
    /\ args = NoCall
    /\ ret = NoRet
    /\ history = <<>>

CallAssignByDistance ==
    /\ pc = "input"
    /\ LET r == assign_by_distance(df)
       IN  /\ df' = r.table
           /\ pc' = IF r.raised THEN "distance_raised" ELSE "distanced"
    /\ history' = Append(history, df)
    /\ UNCHANGED <<max_prop, args, ret>>

CallAssignByDistanceAgain ==
    /\ pc = "distanced"
    /\ LET r == assign_by_distance(df)
       IN  /\ df' = r.table
           /\ pc' = IF r.raised THEN "distance_raised" ELSE "distanced_twice"
    /\ history' = Append(history, df)
    /\ UNCHANGED <<max_prop, args, ret>>

NextDist == CallAssignByDistance \/ CallAssignByDistanceAgain

SpecDist == InitDist /\ [][NextDist]_vars

---------------------------------------------------------------------------
(* Claims about the walks (SpecWalk). *)

Walked(fn) == pc = "walked" /\ args.fn = fn

\* C4: walk_downstream and walk_upstream never visit an id twice and always
\* end: they return, or (on a cycle) fail; they never keep looping.
C4_WalksEndWithoutRevisit ==
    pc = "walked" => (ret.returned /\ NoDuplicates(ret.ids))

\* C5: on an acyclic network walk_upstream(start, same_order=True) returns
\* exactly start plus the segments of start's order that drain to start through
\* segments of that order: start is in it, no other order is, no id is twice in
\* it, and every branch of a confluence is in it.
C5_WalkUpstreamIsSameOrderClosure ==
    (Walked("walk_upstream") /\ Acyclic(df)) =>
        /\ ret.returned
        /\ Range(ret.ids) = UpstreamSameOrder(df, args.start)
        /\ args.start \in Range(ret.ids)
        /\ \A id \in Range(ret.ids) : OrderOf(df, id) = OrderOf(df, args.start)
        /\ NoDuplicates(ret.ids)
        /\ \A i \in DOMAIN df :
             (df[i].downstream_id \in Range(ret.ids)
                /\ df[i].stream_order = OrderOf(df, args.start))
             => df[i].model_id \in Range(ret.ids)

\* a confluence: two segments of start's order drain into start, and both are returned
C5_Witness ==
    /\ Walked("walk_upstream")
    /\ Acyclic(df)
    /\ ret.returned
    /\ \E i, j \in DOMAIN df :
         /\ i # j
         /\ df[i].downstream_id = args.start
         /\ df[j].downstream_id = args.start
         /\ {df[i].model_id, df[j].model_id} \subseteq Range(ret.ids)

\* C10: walk_downstream(start, same_order=True) returns, and its k-th id is
\* the segment k hops below start; it holds only ids of rows of start's stream
\* order: never the outlet sentinel, an id without a row, or another order.
C10_WalkDownstreamOnlySameOrderRows ==
    Walked("walk_downstream") /\ ret.returned =>
        \A k \in DOMAIN ret.ids :
            /\ ret.ids[k] # outlet_next_id
            /\ ret.ids[k] \in IdsOf(df)
            /\ OrderOf(df, ret.ids[k]) = OrderOf(df, args.start)
            /\ ret.ids[k] \in StepDown(df, {IF k = 1 THEN args.start ELSE ret.ids[k - 1]})


---------------------------------------------------------------------------
(* Claims about the pipeline (Spec, SpecChain, SpecMalformed). *)

Unassigned(r) ==
    r.assigned_model_id = NaN /\ r.assigned_gauge_id = NaN /\ r.reason = NoReason

\* the same (fdc_cluster, stream_order) group
SameGroup(a, b) ==
    a.fdc_cluster = b.fdc_cluster /\ a.stream_order = b.stream_order

GaugedAssignment(r) ==
    /\ r.assigned_model_id = r.model_id
    /\ r.assigned_gauge_id = r.gauge_id
    /\ r.reason = reason_gauged

\* C1: after assign_gauged every segment with a gauge is assigned to itself
\* with reason 'gauged', and still is after assign_propagation and after
\* assign_by_distance; assign_gauged leaves every segment without a gauge
\* unassigned.
C1_GaugedAssignedToItselfThroughout ==
    /\ pc \in {"gauged", "propagated", "assigned"} =>
         \A i \in DOMAIN df : df[i].gauge_id # NaN => GaugedAssignment(df[i])
    /\ pc = "gauged" =>
         \A i \in DOMAIN df : df[i].gauge_id = NaN => Unassigned(df[i])

\* the three stages have run, each assigned some segment, and the gauged
\* segment was itself a candidate of a propagation pass
C1_Witness ==
    /\ pc = "assigned"
    /\ \E i, j, k \in DOMAIN df :
         /\ df[i].reason = reason_gauged
         /\ df[j].reason.tag = "propagation"
         /\ df[k].reason.tag = "cluster"
         /\ df[j].model_id < df[i].model_id
         /\ df[j].downstream_id = df[i].model_id
         /\ df[j].stream_order = df[i].stream_order

\* the number of downstream_id links from segment a down to segment b (0 when a = b)
RECURSIVE HopsDown(_, _, _, _)
HopsDown(t, a, b, n) ==
    IF a = b THEN n
    ELSE IF a \notin IdsOf(t) \/ n > Len(t) THEN -1
    ELSE HopsDown(t, rows_with_id(t, a)[1].downstream_id, b, n + 1)

PropagatedFrom(r, g, direction, k) ==
    /\ r.assigned_model_id = g
    /\ r.assigned_gauge_id = GaugeAt(g)
    /\ r.reason = reason_propagation(direction, k)

\* C3: on a linear chain of one stream order with one gauged segment g and
\* max_prop at least the chain length, after assign_gauged and
\* assign_propagation g is 'gauged', the segment k hops upstream of g is
\* 'propagation-upstream-k' and the segment k hops downstream of g is
\* 'propagation-downstream-k', all assigned to g.
C3_ChainPropagationByHops ==
    pc = "propagated" =>
        \A i, j \in DOMAIN df :
            df[j].gauge_id # NaN =>
                LET g    == df[j].model_id
                    up   == HopsDown(df, df[i].model_id, g, 0)
                    down == HopsDown(df, g, df[i].model_id, 0)
                IN  /\ i = j => GaugedAssignment(df[i])
                    /\ up > 0 => PropagatedFrom(df[i], g, "upstream", up)
                    /\ down > 0 => PropagatedFrom(df[i], g, "downstream", down)

\* C13: after assign_gauged and assign_propagation on an acyclic network with
\* any number of gauges, a segment with reason 'propagation-<dir>-<d>' has the
\* stream order of the segment its assigned_model_id names and is exactly d
\* downstream_id links above or below it through segments of that order, with
\* 1 <= d <= max_prop.
C13_PropagationReasonIsHopDistance ==
    pc = "propagated" =>
        \A i \in DOMAIN df :
            df[i].reason.tag = "propagation" =>
                LET g == df[i].assigned_model_id
                    d == df[i].reason.num
                IN  /\ g \in IdsOf(df)
                    /\ df[i].stream_order = OrderOf(df, g)
                    /\ d \in 1..max_prop
                    /\ \/ HopsDown(OrderNet(df, g), df[i].model_id, g, 0) = d
                       \/ HopsDown(OrderNet(df, g), g, df[i].model_id, 0) = d

\* row i is assigned to a row of the table that carries a gauge, with that gauge's id
AssignedToGaugedRow(t, i) ==
    \E j \in DOMAIN t :
        /\ t[j].model_id = t[i].assigned_model_id
        /\ t[j].gauge_id # NaN
        /\ t[i].assigned_gauge_id = t[j].gauge_id

\* C16: after assign_gauged, after assign_propagation and after
\* assign_by_distance, every assigned_model_id that is not null is the
\* model_id of a row that carries a gauge, and the assigned_gauge_id beside it
\* is the gauge_id of that row: no segment is assigned the id of an ungauged
\* or unassigned segment.
C16_AssignedIdsNameGaugedRows ==
    pc \in {"gauged", "propagated", "assigned"} =>
        \A i \in DOMAIN df :
            df[i].assigned_model_id # NaN => AssignedToGaugedRow(df, i)

\* a segment assigned by distance whose nearest assigned segment got its
\* assignment by propagation: it is given the gauged segment behind it
C16_Witness ==
    /\ pc = "assigned"
    /\ \E i, j, k \in DOMAIN df :
         /\ df[i].reason.tag = "cluster"
         /\ df[j].reason.tag = "propagation"
         /\ df[k].reason = reason_gauged
         /\ df[i].assigned_model_id = df[k].model_id
         /\ df[j].assigned_model_id = df[k].model_id
         /\ SameGroup(df[i], df[j])
         /\ SameGroup(df[i], df[k])
         /\ dist2(df[j], df[i]) < dist2(df[k], df[i])

\* the same rows in the same order, alike in every field but the three
\* assignment fields
FrameKept(a, b) ==
    /\ Len(a) = Len(b)
    /\ \A i \in DOMAIN a :
         /\ a[i].model_id = b[i].model_id
         /\ a[i].downstream_id = b[i].downstream_id
         /\ a[i].stream_order = b[i].stream_order
         /\ a[i].x = b[i].x
         /\ a[i].y = b[i].y
         /\ a[i].gauge_id = b[i].gauge_id
         /\ a[i].fdc_cluster = b[i].fdc_cluster
         /\ DOMAIN a[i] = DOMAIN b[i]

DuplicateIds(t) == \E i, j \in DOMAIN t : i # j /\ t[i].model_id = t[j].model_id

\* C9: a table with two rows of the same model_id is rejected before any
\* assignment: no stage writes assigned_model_id, assigned_gauge_id or reason
\* of any of its rows.
C9_DuplicateIdsNeverAssigned ==
    (DuplicateIds(df) /\ pc # "merged") => \A i \in DOMAIN df : Unassigned(df[i])


---------------------------------------------------------------------------
(* Claims about the row order (SpecOrder). *)

\* C14: the propagation stage gives every segment the same assigned_model_id,
\* assigned_gauge_id and reason whatever the order of the rows of its input:
\* the gauged segments are gone through in one fixed order, so a segment that
\* two gauges reach at the same distance gets the same gauge either way.
C14_PropagationSameForAnyRowOrder ==
    pc = "propagated_both" =>
        /\ ret.given.returned
        /\ ret.reordered.returned
        /\ \A i, j \in DOMAIN df :
             ret.given.table[i].model_id = ret.reordered.table[j].model_id =>
                 ret.given.table[i] = ret.reordered.table[j]

---------------------------------------------------------------------------
(* Claims about propagate_in_table (SpecProp). *)

\* C2: propagate_in_table leaves assigned_model_id, assigned_gauge_id and
\* reason as they were on every row whose reason is 'gauged', whatever the
\* gauged stream, the candidate sequence, max_prop and the direction.
C2_PropagateKeepsGaugedRows ==
    pc = "propagate_called" =>
        \A i \in DOMAIN df :
            df[i].reason = reason_gauged =>
                /\ ret[i].assigned_model_id = df[i].assigned_model_id
                /\ ret[i].assigned_gauge_id = df[i].assigned_gauge_id
                /\ ret[i].reason = df[i].reason

\* a gauged row other than the gauged stream is a candidate within max_prop,
\* and so is the gauged stream itself, while another candidate was written
C2_Witness ==
    /\ pc = "propagate_called"
    /\ \E i \in DOMAIN df, n \in DOMAIN args.connected_segments :
         /\ df[i].reason = reason_gauged
         /\ args.connected_segments[n] = df[i].model_id
         /\ n <= max_prop
         /\ \/ df[i].model_id = args.start
            \/ ret # df

\* the 1-based position at which id first comes in the candidate sequence c,
\* 0 when it is not in it; a later position of the same id is farther, and
\* whatever keeps the first from being written keeps the later ones too
PositionOf(c, id) ==
    IF \E n \in DOMAIN c : c[n] = id
    THEN CHOOSE n \in DOMAIN c : c[n] = id /\ \A k \in 1..(n - 1) : c[k] # id
    ELSE 0

\* unassigned, or assigned by a propagation from at least d away
Writable(r, d) ==
    \/ r.assigned_model_id = NaN
    \/ (r.reason.tag = "propagation" /\ r.reason.num >= d)

SameAssignment(a, b) ==
    /\ a.assigned_model_id = b.assigned_model_id
    /\ a.assigned_gauge_id = b.assigned_gauge_id
    /\ a.reason = b.reason

\* the candidate of row i is within max_prop and writable at its position
CandidateWritten(i) ==
    LET d == PositionOf(args.connected_segments, df[i].model_id)
    IN  d > 0 /\ d <= max_prop /\ Writable(df[i], d)

\* C11: propagate_in_table writes the candidate at position d exactly when
\* d <= max_prop and the candidate is unassigned or carries a propagation
\* reason of distance d_prev >= d: such a row comes out assigned to the gauged
\* stream at distance d; a candidate beyond max_prop, a gauged one, one with a
\* cluster reason, one with a propagation distance below d, and every row
\* that is no candidate keep their three assignment fields.
C11_PropagateWritesExactlyWritableCandidates ==
    pc = "propagate_called" =>
        \A i \in DOMAIN df :
            LET d == PositionOf(args.connected_segments, df[i].model_id)
            IN  IF CandidateWritten(i)
                THEN /\ ret[i].assigned_model_id = args.start
                     /\ ret[i].reason.tag = "propagation"
                     /\ ret[i].reason.num = d
                ELSE SameAssignment(ret[i], df[i])

\* one call overrides a candidate whose earlier propagation was from as far
\* or farther and leaves a candidate whose earlier propagation was nearer
C11_Witness ==
    /\ pc = "propagate_called"
    /\ \E i, j \in DOMAIN df :
         /\ df[i].reason.tag = "propagation"
         /\ CandidateWritten(i)
         /\ ret[i].assigned_model_id # df[i].assigned_model_id
         /\ df[j].reason.tag = "propagation"
         /\ PositionOf(args.connected_segments, df[j].model_id) \in 1..max_prop
         /\ ~CandidateWritten(j)
         /\ SameAssignment(ret[j], df[j])

\* C12: every assignment propagate_in_table writes, a first assignment or an
\* override, is (assigned_model_id = g, assigned_gauge_id = G,
\* reason = 'propagation-<direction>-<d>') with <direction> the direction
\* argument of the call and d the position of the candidate.
C12_PropagateWritesDirectionOfPass ==
    pc = "propagate_called" =>
        \A i \in DOMAIN df :
            CandidateWritten(i) =>
                /\ ret[i].assigned_model_id = args.start
                /\ args.fn = "propagate_in_table_gid" =>
                        ret[i].assigned_gauge_id = GaugeAt(args.start)
                /\ ret[i].reason =
                        reason_propagation(args.direction,
                            PositionOf(args.connected_segments, df[i].model_id))

---------------------------------------------------------------------------
(* Claims about assign_by_distance (SpecDist). *)

\* the table the last call was given
Input == history[Len(history)]

AssignedByCall(i) ==
    Input[i].assigned_model_id = NaN /\ df[i].assigned_model_id # NaN

\* the rows of the input that are assigned and in the group of row i
AvailableFor(i) ==
    {j \in DOMAIN Input : Input[j].assigned_model_id # NaN /\ SameGroup(Input[j], Input[i])}

SquaredDistance(a, b) ==
    (a.x - b.x) * (a.x - b.x) + (a.y - b.y) * (a.y - b.y)

\* the available rows nearest to row i
NearestFor(i) ==
    {j \in AvailableFor(i) :
        \A k \in AvailableFor(i) :
            SquaredDistance(Input[j], Input[i]) <= SquaredDistance(Input[k], Input[i])}

FirstOf(S) == CHOOSE j \in S : \A k \in S : j <= k

CopiedFrom(i, j) ==
    /\ df[i].assigned_model_id = Input[j].assigned_model_id
    /\ df[i].assigned_gauge_id = Input[j].assigned_gauge_id

\* C6: assign_by_distance never assigns across groups: a segment it assigns
\* gets the assignment of a segment of its own fdc_cluster and stream_order,
\* and its reason is 'cluster-<its own fdc_cluster>-dist'.
C6_DistanceStaysWithinGroup ==
    pc = "distanced" =>
        \A i \in DOMAIN df :
            AssignedByCall(i) =>
                /\ \E j \in AvailableFor(i) : CopiedFrom(i, j)
                /\ df[i].reason = reason_cluster(Input[i].fdc_cluster)

\* a segment is assigned while a nearer assigned segment of another stream
\* order and one of another cluster are in the table
C6_Witness ==
    /\ pc = "distanced"
    /\ \E i, j, k \in DOMAIN df :
         /\ AssignedByCall(i)
         /\ Input[j].assigned_model_id # NaN
         /\ Input[j].fdc_cluster = Input[i].fdc_cluster
         /\ Input[j].stream_order # Input[i].stream_order
         /\ Input[k].assigned_model_id # NaN
         /\ SameGroup(Input[k], Input[i])
         /\ SquaredDistance(Input[j], Input[i]) < SquaredDistance(Input[k], Input[i])

\* C7: the segment copied from is an available segment of the group at the
\* smallest Euclidean distance, the first in table order among those at that
\* distance.
C7_DistancePicksFirstNearest ==
    pc = "distanced" =>
        \A i \in DOMAIN df :
            AssignedByCall(i) =>
                /\ CopiedFrom(i, FirstOf(NearestFor(i)))
                /\ df[i].reason = reason_cluster(Input[i].fdc_cluster)

\* two available segments at different places are equally near, a third
\* relation (nearer than another) is decided by distance: the first is used
C7_Witness ==
    /\ pc = "distanced"
    /\ \E i \in DOMAIN df :
         /\ AssignedByCall(i)
         /\ \E j, k \in NearestFor(i) :
              /\ j < k
              /\ <<Input[j].x, Input[j].y>> # <<Input[k].x, Input[k].y>>
              /\ CopiedFrom(i, j)
              /\ ~CopiedFrom(i, k)

\* C8: assign_by_distance returns a fully assigned table as it is, and
\* applied to its own result returns that result.
C8_DistanceIdempotent ==
    /\ (pc = "distanced" /\ \A i \in DOMAIN Input : Input[i].assigned_model_id # NaN)
         => df = Input
    /\ pc = "distanced_twice" => df = Input

\* the second run follows a first run that assigned a segment and left another unassigned
C8_Witness ==
    /\ pc = "distanced_twice"
    /\ history[2] # history[1]
    /\ \E i \in DOMAIN df : df[i].assigned_model_id = NaN

\* the group of row i has a cluster label and an assigned segment in the input
GroupHasAssigned(i) == Input[i].fdc_cluster # NaN /\ AvailableFor(i) # {}

\* C15: assign_by_distance does not raise on a group without an assigned
\* segment: it leaves the segments of that group (and those without a cluster
\* label) with null assigned_model_id, assigned_gauge_id and reason and goes on
\* to the other groups, where every unassigned segment of a group that has an
\* assigned segment gets an assignment.
C15_GroupsWithoutAssignedAreSkipped ==
    /\ pc # "distance_raised"
    /\ pc = "distanced" =>
         \A i \in DOMAIN df :
             Input[i].assigned_model_id = NaN =>
                 IF GroupHasAssigned(i)
                 THEN /\ df[i].assigned_model_id # NaN
                      /\ df[i].assigned_gauge_id # NaN
                      /\ df[i].reason.tag = "cluster"
                 ELSE Unassigned(df[i])

\* a group without an assigned segment is passed over and a group that
\* comes after it in the loops (a higher stream order of the same cluster) is
\* assigned
C15_Witness ==
    /\ pc = "distanced"
    /\ \E i, j \in DOMAIN df :
         /\ Input[i].assigned_model_id = NaN
         /\ Input[i].fdc_cluster # NaN
         /\ ~GroupHasAssigned(i)
         /\ Unassigned(df[i])
         /\ Input[j].fdc_cluster = Input[i].fdc_cluster
         /\ Input[j].stream_order > Input[i].stream_order
         /\ AssignedByCall(j)

=============================================================================
